---- MODULE Spec2Model ----
(***************************************************************************)
(* Streets: the Excel-to-Elasticsearch loader (src/src/loadUtils.ts and    *)
(* the load script, the first part of src/src/load.ts) and the search /    *)
(* soft-delete HTTP server (the second part of src/src/load.ts), with the  *)
(* Elasticsearch index they share, modelled as one state machine.          *)
(*                                                                         *)
(* A JavaScript string is a sequence of one-character strings; a cell or   *)
(* field value is a record [k, v] whose k is the JavaScript typeof. A      *)
(* number is the decimal fraction m / 10^s, v = <<m, s>>; NaN is v = <<>>. *)
(* Number() is modelled on unsigned decimal literals (no sign, exponent,   *)
(* hex or Infinity), and whitespace is the space character.                *)
(***************************************************************************)
EXTENDS Integers, Sequences, FiniteSets, TLC

\* ------------------------------------------------------------------ bounds

\* Longest data part of a sheet (rows after the header) a loader run reads,
\* and the most documents the index holds (a run starts only if its rows
\* fit), in the specification of the loader alone.
MaxRows == 3
MaxDocs == 3
\* The most documents the index holds in the specifications that run the
\* server, where every loader run reads a sheet of one data row.
MaxSysDocs == 2
\* Longest string cell of the specification of the numeric cells.
MaxCellLen == 3
\* The streets a search of the browser client can show, and the most delete
\* requests it has in flight at once.
MaxHits == 2
MaxPending == 2

\* ------------------------------------------------------------ JS strings

Min(a, b) == IF a < b THEN a ELSE b

RECURSIVE trimStart(_)
trimStart(s) == IF s # <<>> /\ Head(s) = " " THEN trimStart(Tail(s)) ELSE s

RECURSIVE trimEnd(_)
trimEnd(s) == IF s # <<>> /\ s[Len(s)] = " " THEN trimEnd(SubSeq(s, 1, Len(s) - 1)) ELSE s

\* String.prototype.trim
trim(s) == trimEnd(trimStart(s))

UpperCase == <<"A","B","C","D","E","F","G","H","I","J","K","L","M",
               "N","O","P","Q","R","S","T","U","V","W","X","Y","Z">>
LowerCase == <<"a","b","c","d","e","f","g","h","i","j","k","l","m",
               "n","o","p","q","r","s","t","u","v","w","x","y","z">>

\* String.prototype.toLowerCase
toLowerCase(s) ==
    [i \in 1..Len(s) |->
        IF \E j \in 1..26 : UpperCase[j] = s[i]
        THEN LowerCase[CHOOSE j \in 1..26 : UpperCase[j] = s[i]]
        ELSE s[i]]

DigitChars == <<"0","1","2","3","4","5","6","7","8","9">>
IsDigit(c) == \E d \in 1..10 : DigitChars[d] = c
DigitVal(c) == (CHOOSE d \in 1..10 : DigitChars[d] = c) - 1

RECURSIVE DigitsVal(_)
DigitsVal(s) ==
    IF s = <<>> THEN 0
    ELSE DigitsVal(SubSeq(s, 1, Len(s) - 1)) * 10 + DigitVal(s[Len(s)])

RECURSIVE Pow10(_)
Pow10(n) == IF n = 0 THEN 1 ELSE 10 * Pow10(n - 1)

RECURSIVE NatToStr(_)
NatToStr(n) ==
    IF n < 10 THEN <<DigitChars[n + 1]>>
    ELSE NatToStr(n \div 10) \o <<DigitChars[(n % 10) + 1]>>

\* ------------------------------------------------------- JS values (cells)

Absent == [k |-> "undefined", v |-> <<>>]
StrCell(s) == [k |-> "string", v |-> s]
BoolCell(b) == [k |-> "boolean", v |-> b]
NumCell(m, s) == [k |-> "number", v |-> <<m, s>>]
NaN == [k |-> "number", v |-> <<>>]

\* The decimal literal of a trimmed, non-empty string: digits with at most
\* one ".", at least one digit; anything else is NaN.
StringToNumber(t) ==
    LET dots == {i \in 1..Len(t) : t[i] = "."}
        rest == SelectSeq(t, LAMBDA c : c # ".")
    IN  IF Cardinality(dots) > 1 \/ rest = <<>> \/ \E i \in 1..Len(rest) : ~IsDigit(rest[i])
        THEN NaN
        ELSE NumCell(DigitsVal(rest),
                     IF dots = {} THEN 0 ELSE Len(t) - (CHOOSE i \in dots : TRUE))

\* Number(raw): a string is trimmed and "" converts to 0; true is 1, false 0.
Number(raw) ==
    CASE raw.k = "number"  -> raw
      [] raw.k = "boolean" -> NumCell(IF raw.v THEN 1 ELSE 0, 0)
      [] raw.k = "string"  -> IF trim(raw.v) = <<>> THEN NumCell(0, 0)
                              ELSE StringToNumber(trim(raw.v))
      [] OTHER             -> NaN

\* Number.isInteger
NumberIsInteger(n) == n.k = "number" /\ n.v # <<>> /\ n.v[1] % Pow10(n.v[2]) = 0

\* A number in lowest terms of its scale (12.50 and 12.5 are one number).
RECURSIVE Normal(_)
Normal(n) ==
    IF n.v # <<>> /\ n.v[2] > 0 /\ n.v[1] % 10 = 0
    THEN Normal(NumCell(n.v[1] \div 10, n.v[2] - 1))
    ELSE n

PadZeros(s, w) == [i \in 1..(w - Len(s)) |-> "0"] \o s

\* String(raw)
String(raw) ==
    CASE raw.k = "string"  -> raw.v
      [] raw.k = "boolean" -> IF raw.v THEN <<"t","r","u","e">> ELSE <<"f","a","l","s","e">>
      [] raw.k = "number"  ->
            IF raw.v = <<>> THEN <<"N","a","N">>
            ELSE LET n == Normal(raw)
                     whole == n.v[1] \div Pow10(n.v[2])
                     frac == n.v[1] % Pow10(n.v[2])
                 IN  IF n.v[2] = 0 THEN NatToStr(whole)
                     ELSE NatToStr(whole) \o <<".">> \o PadZeros(NatToStr(frac), n.v[2])
      [] OTHER             -> <<"u","n","d","e","f","i","n","e","d">>

TrueWords == {<<"t","r","u","e">>, <<"1">>, <<"y","e","s">>}

\* coerce(raw, type): undefined is Absent.
coerce(raw, type) ==
    IF raw = Absent THEN Absent
    ELSE IF type \in {"integer", "long"}
         THEN IF NumberIsInteger(Number(raw)) THEN Normal(Number(raw)) ELSE Absent
    ELSE IF type = "boolean"
         THEN IF raw.k = "boolean" THEN raw
              ELSE BoolCell(toLowerCase(String(raw)) \in TrueWords)
    ELSE IF trim(String(raw)) = <<>> THEN Absent ELSE StrCell(trim(String(raw)))

\* ---------------------------------------------------------------- mapping

\* A mapping document: hasProps says whether mappings.properties is there,
\* props are its entries in document order (type "" is an entry without a
\* type), defaults is the optional "defaults" object (a function on its keys).
NoDefaults == [n \in {} |-> Absent]

getFieldNames(mapping) ==
    IF ~mapping.hasProps THEN <<>>
    ELSE LET names == [i \in 1..Len(mapping.props) |-> mapping.props[i].name]
         IN  SelectSeq(names, LAMBDA n : n # "allText")

getFieldType(mapping, fieldName) ==
    LET here == {i \in 1..Len(mapping.props) : mapping.props[i].name = fieldName}
    IN  IF ~mapping.hasProps \/ here = {} THEN "text"
        ELSE LET t == mapping.props[CHOOSE i \in here : TRUE].type
             IN  IF t = "" THEN "text" ELSE t

getDefaults(mapping) == mapping.defaults

\* buildLoaderConfig: ok is FALSE where the code throws "No indexable fields".
buildLoaderConfig(mapping) ==
    LET fieldNames == getFieldNames(mapping)
    IN  [ok |-> Len(fieldNames) # 0,
         fieldNames |-> fieldNames,
         fieldTypes |-> [n \in {fieldNames[i] : i \in 1..Len(fieldNames)} |->
                            getFieldType(mapping, n)],
         defaults |-> getDefaults(mapping)]

\* ------------------------------------------------------------ row mapper

CellAt(row, i) == IF i \in 1..Len(row) THEN row[i] ELSE Absent

\* rowToDoc: isNull is TRUE where the code returns null; doc is a function
\* from the populated field names to their values.
rowToDoc(row, fieldNames, fieldTypes, defaults) ==
    LET value == [i \in 1..Len(fieldNames) |->
                     coerce(CellAt(row, i), fieldTypes[fieldNames[i]])]
        set == {fieldNames[i] : i \in {j \in 1..Len(fieldNames) : value[j] # Absent}}
        doc == [n \in set \cup DOMAIN defaults |->
                   IF n \in set
                   THEN value[CHOOSE i \in 1..Len(fieldNames) : fieldNames[i] = n]
                   ELSE defaults[n]]
    IN  [isNull |-> DOMAIN doc = {}, doc |-> doc]

\* ----------------------------------------------------- search backend

\* The index is a sequence of stored documents (_source); the document at
\* position k has the generated id IdOf(k). A bulk "index" action without
\* _id always creates a new document under a fresh id.
IdOf(k) == <<"d">> \o NatToStr(k)

\* A bulk write whose actions carry the row number as _id: the documents
\* take the places of the first stored ones.
EsBulkIndex_ByRowId(idx, docs) ==
    IF Len(idx) >= Len(docs)
    THEN docs \o SubSeq(idx, Len(docs) + 1, Len(idx))
    ELSE docs

EsBulkIndex(idx, docs) == idx \o docs

\* A partial update merges the partial document into the stored one.
EsUpdateDoc(src, partial) ==
    [n \in DOMAIN src \cup DOMAIN partial |->
        IF n \in DOMAIN partial THEN partial[n] ELSE src[n]]

RECURSIVE Tokens(_)
\* The analysed text of a string: its words, split at spaces.
Tokens(s) ==
    LET t == trimStart(s)
        ends == {i \in 1..Len(t) : t[i] = " "}
        cut == IF ends = {} THEN Len(t) + 1
               ELSE CHOOSE i \in ends : \A j \in ends : i <= j
    IN  IF t = <<>> THEN <<>>
        ELSE <<SubSeq(t, 1, cut - 1)>> \o Tokens(SubSeq(t, cut, Len(t)))

\* The values a query on `field` sees in a stored document. allText is the
\* copy_to target: it holds the value of every text field of the document.
FieldValues(src, field) ==
    IF field = "allText"
    THEN {src[n].v : n \in {m \in DOMAIN src : src[m].k = "string"}}
    ELSE IF field \in DOMAIN src /\ src[field].k \in {"string", "number"}
         THEN {String(src[field])}
         ELSE {}

IsPhraseIn(words, text) ==
    \E o \in 0..(Len(text) - Len(words)) :
        \A i \in 1..Len(words) : text[o + i] = words[i]

ClauseMatches(src, c) ==
    CASE c.kind = "term" ->
            c.field \in DOMAIN src /\ src[c.field] = BoolCell(c.value)
      [] c.kind = "match" ->
            \E val \in FieldValues(src, c.field) :
                \E i \in 1..Len(Tokens(c.query)) :
                    \E j \in 1..Len(Tokens(val)) : Tokens(val)[j] = Tokens(c.query)[i]
      [] c.kind = "match_phrase" ->
            \E val \in FieldValues(src, c.field) : IsPhraseIn(Tokens(c.query), Tokens(val))
      [] OTHER -> FALSE

\* bool query: every must clause and every filter clause matches.
QueryMatches(src, query) ==
    /\ \A i \in 1..Len(query.bool.must) : ClauseMatches(src, query.bool.must[i])
    /\ \A i \in 1..Len(query.bool.filter) : ClauseMatches(src, query.bool.filter[i])

\* The ids a search of the searchable view returns.
EsSearch(view, query) == {k \in 1..Len(view) : QueryMatches(view[k], query)}

\* -------------------------------------------------------- query builder

FREE == <<"f","r","e","e">>
ANY == <<"a","n","y">>
PHRASE == <<"p","h","r","a","s","e">>

Clause(kind, field, q, operator, value) ==
    [kind |-> kind, field |-> field, query |-> q, operator |-> operator, value |-> value]

\* buildEsQuery with its filter clause forgotten.
buildEsQuery_NoFilter(q, mode) ==
    LET mustQuery ==
            IF mode = FREE THEN Clause("match", "namePrimary", q, "", FALSE)
            ELSE IF mode = PHRASE THEN Clause("match_phrase", "allText", q, "", FALSE)
            ELSE Clause("match", "allText", q, "or", FALSE)
    IN  [bool |-> [must |-> <<mustQuery>>, filter |-> <<>>]]

buildEsQuery(q, mode) ==
    LET mustQuery ==
            IF mode = FREE THEN Clause("match", "namePrimary", q, "", FALSE)
            ELSE IF mode = PHRASE THEN Clause("match_phrase", "allText", q, "", FALSE)
            ELSE Clause("match", "allText", q, "or", FALSE)
    IN  [bool |-> [must |-> <<mustQuery>>,
                   filter |-> <<Clause("term", "isDeleted", <<>>, "", FALSE)>>]]

\* The mode taken as sent, without the fallback to "free".
ModeOf_NoFallback(modeRaw) == modeRaw

\* const mode = ["free","any","phrase"].includes(modeRaw) ? modeRaw : "free"
ModeOf(modeRaw) == IF modeRaw \in {FREE, ANY, PHRASE} THEN modeRaw ELSE FREE

\* The parameter read without .trim().
ParamOf_NoTrim(param, dflt) == String(IF param = Absent THEN StrCell(dflt) ELSE param)

\* String(param ?? dflt).trim() of a request parameter (Absent when not sent).
ParamOf(param, dflt) == trim(String(IF param = Absent THEN StrCell(dflt) ELSE param))

SearchSize == 200
SourceFields == {"namePrimary", "title", "nameSecondary", "group", "kind", "neighborhood"}

\* One hit of the response: the id and the projected _source.
HitOf(view, k) ==
    [id |-> IdOf(k),
     source |-> [n \in DOMAIN view[k] \cap SourceFields |-> view[k][n]]]

\* ------------------------------------------------------------------ state

VARIABLES
    esExists,   \* the index exists in the backend
    index,      \* the stored documents, by position (realtime view)
    visible,    \* the searchable view: the index as of its last refresh
    lpc,        \* where the loader process is
    run,        \* the loader run's inputs: mapping, source, batchSize
    rows,       \* loadAndIndex: rows
    i,          \* loadAndIndex: position of the current row
    batch,      \* loadAndIndex: batch
    indexed,    \* loadAndIndex: indexed
    calls,      \* the backend calls the loader run has issued, in order
    search,     \* the server's search request: idle, in flight or answered
    del,        \* the server's delete request: idle, in flight or answered
    acked,      \* positions of the documents whose delete returned success
    hits,       \* App: hits, the ids of the listed streets in list order
    loading,    \* App: loading, a search of the client is in flight
    err,        \* App: err, "" for null
    deleting,   \* the onDelete calls awaiting deleteStreet: id and captured prev
    removed     \* the ids whose DELETE the server has answered with success

vars == <<esExists, index, visible, lpc, run, rows, i, batch, indexed, calls,
          search, del, acked, hits, loading, err, deleting, removed>>
uiVars == <<hits, loading, err, deleting, removed>>
loaderVars == <<lpc, run, rows, i, batch, indexed, calls>>
serverVars == <<search, del, acked>>

\* ----------------------------------------------------------------- inputs

S(w) == StrCell(w)

Prop(name, type) == [name |-> name, type |-> type]

IsDeletedDefault == [n \in {"isDeleted"} |-> BoolCell(FALSE)]

\* Mapping documents a run may be given.
MapStreets ==
    [hasProps |-> TRUE,
     props |-> <<Prop("namePrimary", "text"), Prop("title", ""),
                 Prop("isDeleted", "boolean"), Prop("allText", "text")>>,
     defaults |-> IsDeletedDefault]
MapNoDefaults ==
    [hasProps |-> TRUE,
     props |-> <<Prop("namePrimary", "text"), Prop("code", "integer")>>,
     defaults |-> NoDefaults]
MapOnlyAllText ==
    [hasProps |-> TRUE, props |-> <<Prop("allText", "text")>>, defaults |-> IsDeletedDefault]
MapNoProps ==
    [hasProps |-> FALSE, props |-> <<>>, defaults |-> NoDefaults]

Mappings == {MapStreets, MapNoDefaults, MapOnlyAllText, MapNoProps}

\* Sheet rows: a blank row, a row of words, a row of blanks only, a row with
\* a numeric cell.
HeaderRow == <<S(<<"n">>), S(<<"t">>)>>
DataRows ==
    { <<>>,
      <<S(<<"a", " ", "b">>)>>,
      <<Absent, S(<<" ">>)>>,
      <<S(<<"b">>), NumCell(15, 1), S(<<"Y", "e", "s">>)>> }

\* The rows of the whole-system specification: words, and a deleted street.
SysRows ==
    { <<S(<<"a", " ", "b">>)>>,
      <<S(<<"a">>), S(<<"b", " ", "a">>), S(<<"Y", "e", "s">>)>> }

SeqsUpTo(set, n) == UNION {[1..m -> set] : m \in 0..n}

\* status: the file is missing, cannot be read, has no sheet, or is read;
\* sheet: the rows of the first sheet, header first.
Source(status, sheet) == [status |-> status, sheet |-> sheet]
Sources ==
    {Source(st, <<>>) : st \in {"missing", "unreadable", "nosheet", "ok"}}
    \cup {Source("ok", <<HeaderRow>> \o data) : data \in SeqsUpTo(DataRows, MaxRows)}

\* BATCH_SIZE as parseInt reads it; 0 stands for unset, unparsable or "0".
EnvBatchSizes == {0, 1, 2}
DefaultBatchSize == 500

QueryParams ==
    { Absent, S(<<" ">>), S(<<"a">>), S(<<" ", "b", " ">>),
      S(<<"a", " ", "b">>), S(<<"b", " ", "a">>), S(<<"1", ".", "5">>) }
ModeParams ==
    { Absent, S(FREE), S(ANY), S(PHRASE), S(<<" ">> \o ANY \o <<" ">>),
      S(<<"f","u","z","z","y">>) }
IdParams ==
    {S(IdOf(k)) : k \in 1..(MaxSysDocs + 1)}
    \cup {S(<<" ">> \o IdOf(k) \o <<" ">>) : k \in 1..MaxSysDocs}
    \cup {S(<<" ">>)}

\* ---------------------------------------------------------- initial state

NoRun == [mapping |-> MapNoProps, source |-> Source("missing", <<>>), batchSize |-> 0]
Call(op, docs, ok) == [op |-> op, docs |-> docs, ok |-> ok]

SearchIdle ==
    [st |-> "idle", q |-> Absent, mode |-> Absent, query |-> <<>>, since |-> {},
     called |-> FALSE, status |-> 0, form |-> "", hits |-> {}]
DelIdle ==
    [st |-> "idle", id |-> Absent, called |-> FALSE, status |-> 0, error |-> "",
     result |-> ""]

Init ==
    /\ esExists = FALSE
    /\ index = <<>>
    /\ visible = <<>>
    /\ lpc = "idle"
    /\ run = NoRun
    /\ rows = <<>>
    /\ i = 0
    /\ batch = <<>>
    /\ indexed = 0
    /\ calls = <<>>
    /\ search = SearchIdle
    /\ del = DelIdle
    /\ acked = {}
    /\ hits = <<>>
    /\ loading = FALSE
    /\ err = ""
    /\ deleting = <<>>
    /\ removed = {}

\* ----------------------------------------------------------------- loader

\* How a run ends in main's catch (console.error, exit code 1), by cause.
Failures == {"failed:mapping", "failed:exists", "failed:create", "failed:fields",
             "failed:source", "failed:bulk"}

\* getRunConfig: parseInt(BATCH_SIZE ?? "500", 10) || 500
getRunConfigBatchSize(env) == IF env = 0 THEN DefaultBatchSize ELSE env

DataRowCount(source) == IF Len(source.sheet) > 1 THEN Len(source.sheet) - 1 ELSE 0

\* main, runLoader up to ensureIndex's first await: getRunConfig, loadMapping
\* (which throws when the mapping file is missing or is not JSON), new Client.
StartLoader(mappings, sources, envs, maxDocs) ==
    /\ lpc = "idle"
    /\ \E mappingOk \in BOOLEAN, mapping \in mappings, source \in sources, env \in envs :
        /\ Len(index) + DataRowCount(source) <= maxDocs
        /\ run' = [mapping |-> mapping, source |-> source,
                   batchSize |-> getRunConfigBatchSize(env)]
        /\ lpc' = IF mappingOk THEN "exists" ELSE "failed:mapping"
    /\ rows' = <<>>
    /\ i' = 0
    /\ batch' = <<>>
    /\ indexed' = 0
    /\ calls' = <<>>
    /\ UNCHANGED <<esExists, index, visible, serverVars, uiVars>>

\* ensureIndex: client.indices.exists answers.
EnsureIndexExists ==
    /\ lpc = "exists"
    /\ calls' = Append(calls, Call("exists", <<>>, TRUE))
    /\ lpc' = IF esExists THEN "config" ELSE "create"
    /\ UNCHANGED <<esExists, index, visible, run, rows, i, batch, indexed, serverVars, uiVars>>

\* ensureIndex: client.indices.create answers; the index exists from then on.
EnsureIndexCreate ==
    /\ lpc = "create"
    /\ calls' = Append(calls, Call("create", <<>>, TRUE))
    /\ esExists' = TRUE
    /\ lpc' = "config"
    /\ UNCHANGED <<index, visible, run, rows, i, batch, indexed, serverVars, uiVars>>

\* ensureIndex: the backend call in flight rejects.
EnsureIndexFail ==
    /\ lpc \in {"exists", "create"}
    /\ calls' = Append(calls, Call(lpc, <<>>, FALSE))
    /\ lpc' = IF lpc = "exists" THEN "failed:exists" ELSE "failed:create"
    /\ UNCHANGED <<esExists, index, visible, run, rows, i, batch, indexed, serverVars, uiVars>>

\* runLoader after ensureIndex: buildLoaderConfig(mapping).
BuildLoaderConfig ==
    /\ lpc = "config"
    /\ lpc' = IF buildLoaderConfig(run.mapping).ok THEN "read" ELSE "failed:fields"
    /\ UNCHANGED <<esExists, index, visible, run, rows, i, batch, indexed, calls, serverVars, uiVars>>

\* loadExcelRows without its "No data rows in sheet" check.
loadExcelRows_NoRowCheck(source) ==
    IF source.status # "ok"
    THEN [ok |-> FALSE, rows |-> <<>>]
    ELSE [ok |-> TRUE, rows |-> IF source.sheet = <<>> THEN <<>> ELSE Tail(source.sheet)]

\* loadExcelRows: ok is FALSE where the code throws.
loadExcelRows(source) ==
    IF source.status # "ok" \/ Len(source.sheet) < 2
    THEN [ok |-> FALSE, rows |-> <<>>]
    ELSE [ok |-> TRUE, rows |-> Tail(source.sheet)]

\* loadAndIndex up to the loop: rows, batch = [], indexed = 0.
LoadRows ==
    /\ lpc = "read"
    /\ lpc' = IF loadExcelRows(run.source).ok THEN "loop" ELSE "failed:source"
    /\ rows' = loadExcelRows(run.source).rows
    /\ i' = 1
    /\ batch' = <<>>
    /\ indexed' = 0
    /\ UNCHANGED <<esExists, index, visible, run, calls, serverVars, uiVars>>

DocOfRow(row, mapping) ==
    rowToDoc(row, buildLoaderConfig(mapping).fieldNames,
             buildLoaderConfig(mapping).fieldTypes, buildLoaderConfig(mapping).defaults)

\* The for loop testing batch.length > batchSize: the flush comes one
\* document late.
LoopRow_FlushLate ==
    /\ lpc = "loop"
    /\ i <= Len(rows)
    /\ LET doc == DocOfRow(rows[i], run.mapping)
           pushed == IF doc.isNull THEN batch ELSE Append(batch, doc.doc)
           full == ~doc.isNull /\ Len(pushed) > run.batchSize
       IN  /\ batch' = pushed
           /\ lpc' = IF full THEN "flush" ELSE "loop"
           /\ i' = IF full THEN i ELSE i + 1
    /\ UNCHANGED <<esExists, index, visible, run, rows, indexed, calls, serverVars, uiVars>>

\* One turn of the for loop, up to its await: the row is mapped and, if it
\* gave a document, pushed; a full batch goes to flushBatch.
LoopRow ==
    /\ lpc = "loop"
    /\ i <= Len(rows)
    /\ LET doc == DocOfRow(rows[i], run.mapping)
           pushed == IF doc.isNull THEN batch ELSE Append(batch, doc.doc)
           full == ~doc.isNull /\ Len(pushed) >= run.batchSize
       IN  /\ batch' = pushed
           /\ lpc' = IF full THEN "flush" ELSE "loop"
           /\ i' = IF full THEN i ELSE i + 1
    /\ UNCHANGED <<esExists, index, visible, run, rows, indexed, calls, serverVars, uiVars>>

\* The for loop ends: the final flushBatch is next.
LoopEnd ==
    /\ lpc = "loop"
    /\ i > Len(rows)
    /\ lpc' = "final"
    /\ UNCHANGED <<esExists, index, visible, run, rows, i, batch, indexed, calls, serverVars, uiVars>>

\* The loop's flush with batch.length = 0 forgotten.
AfterFlush_NoClear ==
    /\ indexed' = indexed + Len(batch)
    /\ batch' = batch
    /\ i' = IF lpc = "flush" THEN i + 1 ELSE i
    /\ lpc' = IF lpc = "flush" THEN "loop" ELSE "done"

\* What loadAndIndex does once flushBatch has returned: indexed += batch.length,
\* then in the loop batch.length = 0 and the next row, at the end return.
AfterFlush ==
    /\ indexed' = indexed + Len(batch)
    /\ batch' = IF lpc = "flush" THEN <<>> ELSE batch
    /\ i' = IF lpc = "flush" THEN i + 1 ELSE i
    /\ lpc' = IF lpc = "flush" THEN "loop" ELSE "done"

\* flushBatch with an empty batch returns without a backend call.
FlushBatchEmpty ==
    /\ lpc \in {"flush", "final"}
    /\ Len(batch) = 0
    /\ AfterFlush
    /\ UNCHANGED <<esExists, index, visible, run, rows, calls, serverVars, uiVars>>

\* flushBatch: client.bulk({operations, refresh: false}) is acknowledged. Every
\* document is a new entry; the searchable view is not refreshed.
FlushBatchOk ==
    /\ lpc \in {"flush", "final"}
    /\ Len(batch) # 0
    /\ index' = EsBulkIndex(index, batch)
    /\ esExists' = TRUE
    /\ calls' = Append(calls, Call("bulk", batch, TRUE))
    /\ AfterFlush
    /\ UNCHANGED <<visible, run, rows, serverVars, uiVars>>

\* flushBatch catching the rejection of client.bulk and returning normally.
FlushBatchFail_Swallowed ==
    /\ lpc \in {"flush", "final"}
    /\ Len(batch) # 0
    /\ calls' = Append(calls, Call("bulk", batch, FALSE))
    /\ AfterFlush
    /\ UNCHANGED <<esExists, index, visible, run, rows, serverVars, uiVars>>

\* flushBatch: client.bulk rejects; the error leaves loadAndIndex and runLoader.
FlushBatchFail ==
    /\ lpc \in {"flush", "final"}
    /\ Len(batch) # 0
    /\ calls' = Append(calls, Call("bulk", batch, FALSE))
    /\ lpc' = "failed:bulk"
    /\ UNCHANGED <<esExists, index, visible, run, rows, i, batch, indexed, serverVars, uiVars>>

\* The loader process has printed its result or its error and exits.
LoaderExit ==
    /\ lpc \in Failures \cup {"done"}
    /\ lpc' = "idle"
    /\ run' = NoRun
    /\ rows' = <<>>
    /\ i' = 0
    /\ batch' = <<>>
    /\ indexed' = 0
    /\ calls' = <<>>
    /\ UNCHANGED <<esExists, index, visible, serverVars, uiVars>>

\* The backend's periodic refresh makes every stored document searchable.
EsRefresh ==
    /\ visible # index
    /\ visible' = index
    /\ UNCHANGED <<esExists, index, loaderVars, serverVars, uiVars>>

\* ----------------------------------------------------------------- server

\* GET /api/search up to its await. An empty q is answered at once with the
\* body { hits: [] }; otherwise client.search is issued with the built query.
\* `since` remembers the deletes acknowledged before the search started.
SearchRequest(qParams, modeParams) ==
    /\ search.st # "inflight"
    /\ \E qParam \in qParams, modeParam \in modeParams :
        LET q == ParamOf(qParam, <<>>)
            modeRaw == ParamOf(modeParam, FREE)
        IN  search' =
                IF q = <<>>
                THEN [st |-> "done", q |-> qParam, mode |-> modeParam, query |-> <<>>,
                      since |-> acked, called |-> FALSE, status |-> 200,
                      form |-> "object", hits |-> {}]
                ELSE [st |-> "inflight", q |-> qParam, mode |-> modeParam,
                      query |-> <<buildEsQuery(q, ModeOf(modeRaw))>>,
                      since |-> acked, called |-> TRUE, status |-> 0,
                      form |-> "", hits |-> {}]
    /\ UNCHANGED <<esExists, index, visible, loaderVars, del, acked, uiVars>>

\* client.search answers from the searchable view, at most SearchSize hits;
\* the handler maps the hits and sends them as a bare array.
SearchRespond ==
    /\ search.st = "inflight"
    /\ esExists
    /\ LET found == EsSearch(visible, search.query[1])
       IN  \E ids \in SUBSET found :
            /\ Cardinality(ids) = Min(SearchSize, Cardinality(found))
            /\ search' = [search EXCEPT !.st = "done", !.status = 200, !.form = "array",
                                        !.hits = {HitOf(visible, k) : k \in ids}]
    /\ UNCHANGED <<esExists, index, visible, loaderVars, del, acked, uiVars>>

\* client.search rejects (no such index): the catch answers 500 with an error body.
SearchFail ==
    /\ search.st = "inflight"
    /\ ~esExists
    /\ search' = [search EXCEPT !.st = "done", !.status = 500, !.form = "error"]
    /\ UNCHANGED <<esExists, index, visible, loaderVars, del, acked, uiVars>>

\* DELETE /api/streets/:id up to its await: an empty id is answered 400,
\* otherwise client.update is issued.
DeleteRequest(idParams) ==
    /\ del.st # "inflight"
    /\ \E idParam \in idParams :
        del' = IF ParamOf(idParam, <<>>) = <<>>
               THEN [st |-> "done", id |-> idParam, called |-> FALSE, status |-> 400,
                     error |-> "Missing id", result |-> ""]
               ELSE [st |-> "inflight", id |-> idParam, called |-> TRUE, status |-> 0,
                     error |-> "", result |-> ""]
    /\ UNCHANGED <<esExists, index, visible, loaderVars, search, acked, uiVars>>

\* The positions of the stored documents with this id.
DocsWithId(idx, id) == {k \in 1..Len(idx) : IdOf(k) = id}

\* client.update({id, doc: {isDeleted: true}, refresh: true}): the stored
\* document is merged with the partial one and the index is refreshed.
EsUpdateIsDeleted(idx, k) ==
    [idx EXCEPT ![k] = EsUpdateDoc(idx[k], [n \in {"isDeleted"} |-> BoolCell(TRUE)])]

\* The update sent with refresh: false: the searchable view stays as it was.
ViewAfterUpdate_NoRefresh(idx, view) == view

\* What a search sees once the update has returned (refresh: true).
ViewAfterUpdate(idx, view) == idx

IsDeleted(src) == "isDeleted" \in DOMAIN src /\ src["isDeleted"] = BoolCell(TRUE)

\* client.update answers ("noop" when the merge changed nothing): the handler
\* sends { ok: true }.
DeleteRespond ==
    /\ del.st = "inflight"
    /\ \E k \in DocsWithId(index, ParamOf(del.id, <<>>)) :
        /\ index' = EsUpdateIsDeleted(index, k)
        /\ visible' = ViewAfterUpdate(index', visible)
        /\ acked' = acked \cup {k}
        /\ del' = [del EXCEPT !.st = "done", !.status = 200,
                              !.result = IF index' = index THEN "noop" ELSE "updated"]
    /\ UNCHANGED <<esExists, loaderVars, search, uiVars>>

\* client.update rejects with the backend's not-found error (no such document,
\* or no such index): the catch answers 500 "Delete failed".
DeleteFail ==
    /\ del.st = "inflight"
    /\ DocsWithId(index, ParamOf(del.id, <<>>)) = {}
    /\ del' = [del EXCEPT !.st = "done", !.status = 500, !.error = "not_found"]
    /\ UNCHANGED <<esExists, index, visible, loaderVars, search, acked, uiVars>>

\* ---------------------------------------------------------- specifications

\* The loader's steps after its start.
LoaderSteps ==
    \/ EnsureIndexExists
    \/ EnsureIndexCreate
    \/ EnsureIndexFail
    \/ BuildLoaderConfig
    \/ LoadRows
    \/ LoopRow
    \/ LoopEnd
    \/ FlushBatchEmpty
    \/ FlushBatchOk
    \/ FlushBatchFail
    \/ LoaderExit

\* The server's steps after a request has come in.
ServerSteps ==
    \/ SearchRespond
    \/ SearchFail
    \/ DeleteRespond
    \/ DeleteFail

\* The whole system: loader runs of the street mapping over one-row sheets,
\* the backend's refresh, and the server under searches and deletes.
SysSources == {Source("ok", <<HeaderRow, row>>) : row \in SysRows}
SysQueryParams == {S(<<"a", " ", "b">>)}
SysModeParams == {S(FREE), S(ANY), S(PHRASE), S(<<"f","u","z","z","y">>)}
SysIdParams == {S(IdOf(k)) : k \in 1..MaxSysDocs}

Next ==
    \/ StartLoader({MapStreets}, SysSources, {1}, MaxSysDocs)
    \/ LoaderSteps
    \/ EsRefresh
    \/ SearchRequest(SysQueryParams, SysModeParams)
    \/ DeleteRequest(SysIdParams)
    \/ ServerSteps

Spec == Init /\ [][Next]_vars

\* The loader alone, over every mapping, source and batch size.
NextLoad ==
    \/ StartLoader(Mappings, Sources, EnvBatchSizes, MaxDocs)
    \/ LoaderSteps

SpecLoad == Init /\ [][NextLoad]_vars

RECURSIVE DocsOfRows(_, _)
\* The documents the mapper makes of a sequence of rows, in row order.
DocsOfRows(rs, mapping) ==
    IF rs = <<>> THEN <<>>
    ELSE (IF DocOfRow(Head(rs), mapping).isNull THEN <<>>
          ELSE <<DocOfRow(Head(rs), mapping).doc>>)
         \o DocsOfRows(Tail(rs), mapping)

\* The server alone: it starts either before any load (no index yet) or on
\* the refreshed index that loads of the street mapping have filled.
InitServe ==
    /\ esExists \in BOOLEAN
    /\ index \in {DocsOfRows(data, MapStreets) : data \in SeqsUpTo(SysRows, MaxSysDocs)}
    /\ esExists \/ index = <<>>
    /\ visible = index
    /\ lpc = "idle"
    /\ run = NoRun
    /\ rows = <<>>
    /\ i = 0
    /\ batch = <<>>
    /\ indexed = 0
    /\ calls = <<>>
    /\ search = SearchIdle
    /\ del = DelIdle
    /\ acked = {}
    /\ hits = <<>>
    /\ loading = FALSE
    /\ err = ""
    /\ deleting = <<>>
    /\ removed = {}

\* The server under searches, over every query and mode parameter.
NextSearch ==
    \/ SearchRequest(QueryParams, ModeParams)
    \/ SearchRespond
    \/ SearchFail

SpecSearch == InitServe /\ [][NextSearch]_vars

\* The server under deletes, over every id parameter.
NextDelete ==
    \/ DeleteRequest(IdParams)
    \/ DeleteRespond
    \/ DeleteFail

SpecDelete == InitServe /\ [][NextDelete]_vars

\* The loader over numeric columns: one run of a sheet of one data row, whose
\* one cell is any short string of blanks, digits, "." and a letter, a number
\* or a boolean, under an integer column or a long column.
MapCodes ==
    [hasProps |-> TRUE,
     props |-> <<Prop("code", "integer"), Prop("count", "long")>>,
     defaults |-> NoDefaults]
CellChars == {" ", "0", "1", ".", "a"}
CoerceCells ==
    {S(w) : w \in SeqsUpTo(CellChars, MaxCellLen)}
    \cup {NumCell(12, 0), NumCell(125, 1), NumCell(120, 1), NaN,
          BoolCell(TRUE), BoolCell(FALSE)}
CoerceSources ==
    {Source("ok", <<HeaderRow, <<c>>>>) : c \in CoerceCells}
    \cup {Source("ok", <<HeaderRow, <<Absent, c>>>>) : c \in CoerceCells \cup {Absent}}

NextCoerce ==
    \/ StartLoader({MapCodes}, CoerceSources, {1}, 1)
    \/ LoaderSteps

SpecCoerce == Init /\ [][NextCoerce]_vars

\* ---------------------------------------------------------- browser client

\* A hit is modelled by its id (onDelete filters by h.id). The server's answer
\* to a search lists streets in its own order and none whose DELETE it has
\* answered with success.
HitIds == {IdOf(k) : k \in 1..MaxHits}
Listing(T) ==
    LET ks == {k \in 1..MaxHits : IdOf(k) \in T}
        ord == CHOOSE f \in [1..Cardinality(ks) -> ks] :
                  \A a, b \in 1..Cardinality(ks) : a < b => f[a] < f[b]
    IN  [j \in 1..Cardinality(ks) |-> IdOf(ord[j])]
SearchResults == {Listing(T) : T \in SUBSET (HitIds \ removed)}

Filter(list, id) == SelectSeq(list, LAMBDA h : h # id)
Without(pending, k) == SubSeq(pending, 1, k - 1) \o SubSeq(pending, k + 1, Len(pending))

\* onSearch up to its await (the form submits only while canSearch).
UiSearch ==
    /\ ~loading
    /\ loading' = TRUE
    /\ err' = ""
    /\ UNCHANGED <<esExists, index, visible, loaderVars, serverVars, hits, deleting, removed>>

\* onSearch: searchStreets resolves; setHits(data).
UiSearchOk ==
    /\ loading
    /\ \E data \in SearchResults : hits' = data
    /\ loading' = FALSE
    /\ UNCHANGED <<esExists, index, visible, loaderVars, serverVars, err, deleting, removed>>

\* onSearch: searchStreets throws; setErr, setHits([]).
UiSearchFail ==
    /\ loading
    /\ hits' = <<>>
    /\ err' = "search"
    /\ loading' = FALSE
    /\ UNCHANGED <<esExists, index, visible, loaderVars, serverVars, deleting, removed>>

\* onDelete(id) up to its await, from the delete button of a listed street:
\* prev = hits, setHits(prev.filter(h => h.id !== id)), setErr(null).
UiDelete ==
    /\ Len(deleting) < MaxPending
    /\ \E k \in 1..Len(hits) :
        /\ deleting' = Append(deleting, [id |-> hits[k], prev |-> hits])
        /\ hits' = Filter(hits, hits[k])
    /\ err' = ""
    /\ UNCHANGED <<esExists, index, visible, loaderVars, serverVars, loading, removed>>

\* deleteStreet resolves (res.ok): onDelete returns.
UiDeleteOk(k) ==
    /\ k \in 1..Len(deleting)
    /\ removed' = removed \cup {deleting[k].id}
    /\ deleting' = Without(deleting, k)
    /\ UNCHANGED <<esExists, index, visible, loaderVars, serverVars, hits, loading, err>>

\* deleteStreet throws (!res.ok or a network error): setHits(prev), setErr.
UiDeleteFail(k) ==
    /\ k \in 1..Len(deleting)
    /\ hits' = deleting[k].prev
    /\ err' = "delete"
    /\ deleting' = Without(deleting, k)
    /\ UNCHANGED <<esExists, index, visible, loaderVars, serverVars, loading, removed>>

\* The browser client alone, against a server that answers or fails.
NextUi ==
    \/ UiSearch
    \/ UiSearchOk
    \/ UiSearchFail
    \/ UiDelete
    \/ \E k \in 1..MaxPending : UiDeleteOk(k)
    \/ \E k \in 1..MaxPending : UiDeleteFail(k)

SpecUi == Init /\ [][NextUi]_vars

\* ----------------------------------------------------------------- claims

NotDeletedFilter == Clause("term", "isDeleted", <<>>, "", FALSE)

\* The stored documents a hit of a response stands for.
DocsOfHit(h) == DocsWithId(index, h.id)

\* C1 (deleted-filter invariance): every query the search operation sends to
\* the backend carries the isDeleted == false filter, and whenever a search is
\* answered, in whatever mode, no hit of the answer is a document whose
\* isDeleted flag is true.
C1_DeletedFilterInvariance ==
    /\ [](search.called =>
            \E j \in 1..Len(search.query[1].bool.filter) :
                search.query[1].bool.filter[j] = NotDeletedFilter)
    /\ [][SearchRespond =>
            \A h \in search'.hits : \A k \in DocsOfHit(h) : ~IsDeleted(index[k])]_vars

\* C1's case: a search in an unrecognized mode was answered by the backend
\* while a deleted document matched its primary clause, and left it out.
C1_Witness ==
    /\ search.st = "done" /\ search.status = 200 /\ search.called
    /\ search.mode = S(<<"f","u","z","z","y">>)
    /\ search.hits # {}
    /\ \E k \in 1..Len(visible) :
        /\ IsDeleted(visible[k])
        /\ ClauseMatches(visible[k], search.query[1].bool.must[1])
        /\ \A h \in search.hits : h.id # IdOf(k)

\* C2 (soft delete is synchronously visible and one-way): the answer of a
\* search holds no document whose delete had returned success before the
\* search started; and no step of the system turns a stored isDeleted from
\* true to anything else or removes a stored document.
C2_DeleteVisibleOneWay ==
    /\ [](search.st = "done" =>
            \A h \in search.hits : \A k \in DocsOfHit(h) : k \notin search.since)
    /\ [][\A k \in 1..Len(index) :
            /\ k <= Len(index')
            /\ IsDeleted(index[k]) => IsDeleted(index'[k])]_vars

\* C2's case: a search that started after a delete was acknowledged has been
\* answered with hits, and the deleted document matches its primary clause.
C2_Witness ==
    /\ search.st = "done" /\ search.status = 200 /\ search.hits # {}
    /\ \E k \in search.since :
        ClauseMatches(index[k], search.query[1].bool.must[1])

\* The id string a delete request was sent with, as the client wrote it.
SentId == String(del.id)

\* C3 as claimed (delete outcomes): an answered delete of an id that is a
\* document of the index reports success, and an answered delete of an id
\* that is no document of the index reports the backend's not-found failure.
C3_AsClaimed ==
    del.st = "done" =>
        IF DocsWithId(index, SentId) # {}
        THEN del.status = 200
        ELSE del.status = 500 /\ del.error = "not_found" /\ del.called

\* C3 as amended: the id counts after trimming. A trimmed id that is a
\* document of the index: success, every time, and the document is deleted;
\* a delete of an already deleted document changes nothing. A trimmed id that
\* is not empty and is no document: the backend's not-found failure, not
\* success. An id that is empty after trimming: rejected as missing (400)
\* without a backend call. No delete creates a document.
C3_DeleteOutcomes ==
    /\ [](del.st = "done" =>
            IF trim(SentId) = <<>>
            THEN del.status = 400 /\ ~del.called
            ELSE IF DocsWithId(index, trim(SentId)) # {}
                 THEN /\ del.status = 200
                      /\ \A k \in DocsWithId(index, trim(SentId)) : IsDeleted(index[k])
                 ELSE del.status = 500 /\ del.error = "not_found" /\ del.called)
    /\ [][(DeleteRespond \/ DeleteFail) =>
            /\ Len(index') = Len(index)
            /\ (\A k \in DocsWithId(index, trim(SentId)) : IsDeleted(index[k]))
                  => (index' = index /\ visible' = visible)]_vars

\* C3's case: a delete of an already deleted document was answered with
\* success and changed nothing.
C3_Witness ==
    del.st = "done" /\ del.status = 200 /\ del.result = "noop"

\* The query string a search request was sent with ("" when it sent none).
SentQ == String(IF search.q = Absent THEN StrCell(<<>>) ELSE search.q)

\* C9 (empty query short-circuit): a search whose query string is empty or
\* whitespace-only is answered with an empty list, in the list form (a bare
\* array) of a non-empty search's answer, and without a backend call.
C9_EmptyQueryShortCircuit ==
    (search.st = "done" /\ trim(SentQ) = <<>>) =>
        search.hits = {} /\ ~search.called /\ search.form = "array"

\* The mode string a search request was sent with ("free" when it sent none).
SentMode == String(IF search.mode = Absent THEN StrCell(FREE) ELSE search.mode)

\* The query of a mode, written out: one primary clause and the filter.
QueryOfMode(q, mode) ==
    [bool |->
        [must |-> << CASE mode = ANY -> Clause("match", "allText", q, "or", FALSE)
                       [] mode = PHRASE -> Clause("match_phrase", "allText", q, "", FALSE)
                       [] OTHER -> Clause("match", "namePrimary", q, "", FALSE) >>,
         filter |-> <<NotDeletedFilter>>]]

\* C10 as claimed (mode dispatch): the query sent to the backend is the query
\* of the mode string as sent: free, any or phrase, and the query of free for
\* every other mode string.
C10_AsClaimed ==
    search.called => search.query = <<QueryOfMode(trim(SentQ), SentMode)>>

\* C10 as amended: the mode string counts after trimming (" any " is mode
\* any). The query sent is one primary clause ANDed with the isDeleted == false
\* filter: free, any or phrase as the trimmed mode names it, and the query of
\* free for every mode string whose trimmed form is none of the three.
C10_ModeDispatch ==
    search.called => search.query = <<QueryOfMode(trim(SentQ), trim(SentMode))>>

\* C10's case: a search in an unrecognized mode was sent to the backend.
C10_Witness ==
    /\ search.called
    /\ trim(SentMode) \notin {FREE, ANY, PHRASE}
    /\ search.query[1].bool.must[1].field = "namePrimary"

RECURSIVE DocsSent(_)
\* The documents of the acknowledged bulk writes of a call log, in order.
DocsSent(cs) ==
    IF cs = <<>> THEN <<>>
    ELSE (IF Head(cs).op = "bulk" /\ Head(cs).ok THEN Head(cs).docs ELSE <<>>)
         \o DocsSent(Tail(cs))

BulkCalls(cs) == {j \in 1..Len(cs) : cs[j].op = "bulk"}

\* The last n documents of the index.
IndexTail(n) == SubSeq(index, Len(index) - n + 1, Len(index))

\* C4 (round-trip count): with a batch size >= 1, a run that returns has
\* returned the number of rows the mapper made a document of, has sent exactly
\* those documents, each once and in row order, in acknowledged bulk writes,
\* and they are the newest documents of the index.
C4_RoundTripCount ==
    (lpc = "done" /\ run.batchSize >= 1) =>
        /\ indexed = Len(DocsOfRows(rows, run.mapping))
        /\ \A j \in BulkCalls(calls) : calls[j].ok
        /\ DocsSent(calls) = DocsOfRows(rows, run.mapping)
        /\ Len(index) >= indexed
        /\ IndexTail(indexed) = DocsOfRows(rows, run.mapping)

\* C4's case: a run over three rows, one of them discarded, has returned 2
\* after more than one bulk write.
C4_Witness ==
    /\ lpc = "done" /\ Len(rows) = 3 /\ indexed = 2
    /\ Cardinality(BulkCalls(calls)) >= 2

\* C5 (configuration errors abort before any backend contact): a run that
\* fails for a mapping without indexable fields has issued no backend call.
C5_ConfigErrorBeforeContact ==
    lpc = "failed:fields" => calls = <<>>

\* C6 (bulk flush failure): a rejected bulk write is the run's last backend
\* call and fails the run (no later write, no retry, no count); the documents
\* of the bulk writes acknowledged before it stay in the index, and the failed
\* run only exits.
C6_BulkFailureSemantics ==
    /\ [](\A j \in BulkCalls(calls) :
            ~calls[j].ok => (j = Len(calls) /\ lpc = "failed:bulk"))
    /\ [](lpc = "failed:bulk" =>
            /\ Len(index) >= Len(DocsSent(calls))
            /\ IndexTail(Len(DocsSent(calls))) = DocsSent(calls))
    /\ [][lpc = "failed:bulk" => (lpc' = "idle" /\ index' = index)]_vars

\* C6's case: the second bulk write of a run failed while rows were left.
C6_Witness ==
    /\ lpc = "failed:bulk"
    /\ DocsSent(calls) # <<>>
    /\ i < Len(rows)

\* The source errors: the file is missing or unreadable, the workbook has
\* no sheet, or the sheet has fewer than 2 rows.
SourceError(source) == source.status # "ok" \/ Len(source.sheet) < 2

\* C7 as claimed (source errors abort before any writes): a run that fails on
\* its source has sent the backend neither a bulk write nor an index creation.
C7_AsClaimed ==
    lpc = "failed:source" =>
        \A j \in 1..Len(calls) : calls[j].op \notin {"bulk", "create"}

\* C7 as amended: a run over a source in error never gets into the row loop
\* and sends no bulk document write; when it fails on the source it has only
\* checked that the index exists and, if it did not, created it.
C7_SourceErrorsNoDocWrites ==
    (lpc # "idle" /\ SourceError(run.source)) =>
        /\ lpc \notin {"loop", "flush", "final", "done", "failed:bulk"}
        /\ BulkCalls(calls) = {}
        /\ lpc = "failed:source" =>
              calls \in {<<Call("exists", <<>>, TRUE)>>,
                         <<Call("exists", <<>>, TRUE), Call("create", <<>>, TRUE)>>}

\* C7's case: a run failed on a sheet without data rows after creating the index.
C7_Witness ==
    /\ lpc = "failed:source"
    /\ run.source.status = "ok" /\ Len(run.source.sheet) = 1
    /\ Len(calls) = 2

\* C8 (empty-row discard): whatever the schema and the defaults, a row whose
\* cell is absent for every declared field gives "no document".
C8_EmptyRowDiscard ==
    lpc \in {"loop", "flush", "final", "done", "failed:bulk"} =>
        \A j \in 1..Len(rows) :
            ( /\ j < i \/ (j = i /\ lpc \in {"flush", "failed:bulk"})
              /\ \A c \in 1..Len(getFieldNames(run.mapping)) : CellAt(rows[j], c) = Absent )
            => DocOfRow(rows[j], run.mapping).isNull

\* A step that acknowledges a bulk write of the loader's batch.
BulkAcked == calls' = Append(calls, Call("bulk", batch, TRUE))

\* C11 (append-only loads): an acknowledged bulk write adds each document of
\* its batch as a new entry behind the stored ones, and no step of the loader
\* updates, merges or removes a stored document or drops the index: every
\* document that was stored before the step, its isDeleted flag included, is
\* stored unchanged after it. A second run over the same rows doubles them.
C11_AppendOnly ==
    [][(lpc' # lpc \/ calls' # calls) =>
          /\ esExists => esExists'
          /\ Len(index') >= Len(index)
          /\ SubSeq(index', 1, Len(index)) = index
          /\ index' = IF BulkAcked THEN index \o batch ELSE index]_vars

\* C11's case: the second run over the same one-row sheet has returned; the
\* document of the first run was deleted in between and is still stored as
\* deleted, next to the second run's document of the same row.
C11_Witness ==
    /\ lpc = "done" /\ indexed = 1
    /\ Len(index) = 2 /\ 1 \in acked
    /\ IsDeleted(index[1]) /\ ~IsDeleted(index[2])
    /\ index[2] = DocsOfRows(rows, run.mapping)[1]
    /\ index[1] = EsUpdateDoc(index[2], [n \in {"isDeleted"} |-> BoolCell(TRUE)])

\* The integer a number is, where it is one.
IsWhole(n) == n.k = "number" /\ n.v # <<>> /\ n.v[1] % Pow10(n.v[2]) = 0
WholeOf(n) == NumCell(n.v[1] \div Pow10(n.v[2]), 0)

\* What the mapper made of the cell in column c of the run's first row.
CoercedAt(c) ==
    LET doc == DocOfRow(rows[1], run.mapping)
        name == getFieldNames(run.mapping)[c]
    IN  IF name \in DOMAIN doc.doc THEN doc.doc[name] ELSE Absent

\* C12 (integer coercion): once the row of a run over integer and long columns
\* is mapped, every cell has given either absent or an integer: a string that
\* is empty or blank gives absent, any other string gives the integer its
\* trimmed decimal literal denotes and absent if it denotes none, a number
\* gives itself if it is whole and absent if not, an absent cell gives absent.
C12_IntegerCoercion ==
    (run.mapping = MapCodes /\ lpc \in {"loop", "flush", "final", "done"} /\ i >= 1
        /\ (lpc = "loop" => i > 1)) =>
        \A c \in 1..2 :
            LET raw == CellAt(rows[1], c)
                out == CoercedAt(c)
            IN  /\ out = Absent \/ (IsWhole(out) /\ out = WholeOf(out))
                /\ raw = Absent => out = Absent
                /\ raw.k = "string" =>
                      out = IF trim(raw.v) # <<>> /\ IsWhole(StringToNumber(trim(raw.v)))
                            THEN WholeOf(StringToNumber(trim(raw.v)))
                            ELSE Absent
                /\ raw.k = "number" => out = IF IsWhole(raw) THEN WholeOf(raw) ELSE Absent

RECURSIVE BulkDocs(_)
\* The documents of the bulk writes of a call log, acknowledged or not.
BulkDocs(cs) ==
    IF cs = <<>> THEN <<>>
    ELSE (IF Head(cs).op = "bulk" THEN Head(cs).docs ELSE <<>>) \o BulkDocs(Tail(cs))

\* The rows of the run the loop is through, and the documents not yet sent.
RowsDone ==
    SubSeq(rows, 1, Min(Len(rows), IF lpc = "loop" THEN i - 1 ELSE i))
Unsent == IF lpc \in {"loop", "flush", "final"} THEN batch ELSE <<>>

\* C13 (batch protocol): in a run with batch size B >= 1, between rows the
\* batch holds fewer than B documents; a bulk write is sent exactly when the
\* batch has reached B documents, carries the batch, and once acknowledged
\* leaves the batch empty; after the last row one more bulk write is sent
\* only if the batch is not empty. Every bulk write carries between 1 and B
\* documents, only the one after the last row may carry fewer than B, and
\* the documents sent and waiting are the documents of the rows read, in row
\* order.
C13_BatchProtocol ==
    /\ []((lpc \in {"loop", "flush", "final", "done", "failed:bulk"}
            /\ run.batchSize >= 1) =>
            /\ lpc = "loop" => Len(batch) < run.batchSize
            /\ lpc = "flush" => Len(batch) = run.batchSize
            /\ \A j \in BulkCalls(calls) :
                  /\ Len(calls[j].docs) \in 1..run.batchSize
                  /\ Len(calls[j].docs) < run.batchSize =>
                        (j = Len(calls) /\ lpc \in {"done", "failed:bulk"} /\ i > Len(rows))
            /\ BulkDocs(calls) \o Unsent = DocsOfRows(RowsDone, run.mapping))
    /\ [][(lpc \in {"loop", "flush", "final"} /\ run.batchSize >= 1) =>
            /\ lpc = "loop" => calls' = calls
            /\ lpc = "flush" =>
                  /\ \E ok \in BOOLEAN : calls' = Append(calls, Call("bulk", batch, ok))
                  /\ lpc' = "loop" => batch' = <<>>
            /\ lpc = "final" =>
                  IF batch = <<>> THEN calls' = calls
                  ELSE \E ok \in BOOLEAN : calls' = Append(calls, Call("bulk", batch, ok))]_vars

\* C13's case: a run with batch size 2 over rows that gave three documents has
\* returned after a bulk write of two documents and a last one of one.
C13_Witness ==
    /\ lpc = "done" /\ run.batchSize = 2 /\ indexed = 3
    /\ Cardinality(BulkCalls(calls)) = 2
    /\ Len(calls[Len(calls)].docs) = 1
    /\ Len(calls[Len(calls) - 1].docs) = 2

\* The streets a hit list shows.
Shown(list) == {list[k] : k \in 1..Len(list)}

\* C14 (optimistic delete under interleaving): whatever the order of delete
\* clicks and of the answers to them, no listed street is one whose delete
\* was answered with success (a search lists no such street); and the
\* rollback of a failed delete puts back no street but that of the failed
\* delete: every other street it lists was listed before it.
C14_OptimisticDelete ==
    /\ [](Shown(hits) \cap removed = {})
    /\ [][\A k \in 1..MaxPending :
            UiDeleteFail(k) => Shown(hits') \subseteq Shown(hits) \cup {deleting[k].id}]_vars

====
